---- MODULE Spec2Model ----
(***************************************************************************)
(* Model of the review/accept core of the Wikipedia guidelines checker UI: *)
(*   ui/src/App.tsx                (controlling application state)         *)
(*   ui/src/components/Editor.tsx  (offset index, locator, span mutator)   *)
(*   FeedbackPanel (unnamed/part_000) (accept / reject / select triggers)  *)
(*                                                                         *)
(* The ProseMirror document is modelled in ProseMirror's own flat position *)
(* scheme: a sequence of slots, one per position unit.  A slot is an open  *)
(* tag, a close tag or one character of text; document position p lies     *)
(* between slot p and slot p+1 (slots are numbered from 1).  A text node   *)
(* is a maximal run of character slots carrying the same mark.             *)
(***************************************************************************)
EXTENDS Integers, Sequences, FiniteSets, TLC

(***************************************************************************)
(* Bounds of the model.                                                    *)
(***************************************************************************)
MaxDocSize == 5
MaxReviews == 1

(***************************************************************************)
(* Characters.  Upper-case letters stand for the same letter carrying the  *)
(* bold mark, so that one paragraph can hold several text nodes.           *)
(***************************************************************************)
NL == "\n"
SP == " "
PlainLetters == {"a", "b"}
BoldLetters == {"A", "B"}
WhiteSpace == {SP, NL}
TextSlots == PlainLetters \cup BoldLetters \cup {SP}
OpenTags == {"<p>", "<ul>", "<li>"}
CloseTags == {"</p>", "</ul>", "</li>"}
\* a hard break (Shift-Enter): an inline leaf that is neither text nor block
BR == "<br>"

IsText(s) == s \in TextSlots
IsOpen(s) == s \in OpenTags
IsBold(s) == s \in BoldLetters

\* node.text of a one-character slot: the character without its mark
Plain(s) == CASE s = "A" -> "a" [] s = "B" -> "b" [] OTHER -> s

\* the slot for character c carrying (or not) the bold mark
WithMark(c, bold) ==
    IF ~bold THEN Plain(c)
    ELSE CASE Plain(c) = "a" -> "A" [] Plain(c) = "b" -> "B" [] OTHER -> c

Null == [null |-> TRUE]

RECURSIVE Concat(_)
Concat(ss) == IF ss = <<>> THEN <<>> ELSE Head(ss) \o Concat(Tail(ss))

(***************************************************************************)
(* Offset index: Editor.tsx 115-127.                                       *)
(***************************************************************************)
\* the text node that starts at slot i ends at slot RunEnd(doc, i)
RECURSIVE RunEnd(_, _)
RunEnd(doc, i) ==
    IF i < Len(doc) /\ IsText(doc[i + 1]) /\ IsBold(doc[i + 1]) = IsBold(doc[i])
    THEN RunEnd(doc, i + 1)
    ELSE i

StartsTextNode(doc, i) ==
    /\ IsText(doc[i])
    /\ (i = 1 \/ ~IsText(doc[i - 1]) \/ IsBold(doc[i - 1]) # IsBold(doc[i]))

NodeText(doc, i) == [k \in 1..(RunEnd(doc, i) - i + 1) |-> Plain(doc[i + k - 1])]

\* mutant of TokenAt: a newline only between blocks, none for the first block
TokenAtSkipsFirst(doc, i) ==
    IF StartsTextNode(doc, i)
    THEN << [text |-> NodeText(doc, i), pos |-> i - 1, isVirtual |-> FALSE] >>
    ELSE IF IsOpen(doc[i]) /\ i > 1
    THEN << [text |-> <<NL>>, pos |-> i - 1, isVirtual |-> TRUE] >>
    ELSE <<>>

\* the callback of doc.descendants, applied to the node that starts at slot i
\* (document position i - 1); <<>> when no node starts there
TokenAt(doc, i) ==
    IF StartsTextNode(doc, i)
    THEN << [text |-> NodeText(doc, i), pos |-> i - 1, isVirtual |-> FALSE] >>
    ELSE IF IsOpen(doc[i])
    THEN << [text |-> <<NL>>, pos |-> i - 1, isVirtual |-> TRUE] >>
    ELSE <<>>

RECURSIVE TokensFrom(_, _)
TokensFrom(doc, i) ==
    IF i > Len(doc) THEN <<>> ELSE TokenAt(doc, i) \o TokensFrom(doc, i + 1)

Tokens(doc) == TokensFrom(doc, 1)

\* mutant of FullText: join() with its default separator
FullTextCommaJoin(tokens) ==
    Concat([k \in 1..Len(tokens) |->
               IF k = 1 THEN tokens[k].text ELSE <<",">> \o tokens[k].text])

FullText(tokens) == Concat([k \in 1..Len(tokens) |-> tokens[k].text])

(***************************************************************************)
(* Locator: Editor.tsx 129-144.                                            *)
(***************************************************************************)
RECURSIVE TrimLeft(_)
TrimLeft(s) == IF s # <<>> /\ Head(s) \in WhiteSpace THEN TrimLeft(Tail(s)) ELSE s

RECURSIVE TrimRight(_)
TrimRight(s) ==
    IF s # <<>> /\ s[Len(s)] \in WhiteSpace THEN TrimRight(SubSeq(s, 1, Len(s) - 1)) ELSE s

Trim(s) == TrimRight(TrimLeft(s))

\* String.prototype.split(/\s+/): acc is the list of finished parts, cur the
\* part being read
RECURSIVE SplitFrom(_, _, _)
SplitFrom(s, acc, cur) ==
    IF s = <<>> THEN Append(acc, cur)
    ELSE IF Head(s) \in WhiteSpace
    THEN SplitFrom(TrimLeft(s), Append(acc, cur), <<>>)
    ELSE SplitFrom(Tail(s), acc, Append(cur, Head(s)))

SplitWs(s) == SplitFrom(s, <<>>, <<>>)

MetaChars == {".", "*", "+", "?", "^", "$", "{", "}", "(", ")", "|", "[", "]", "\\"}

\* what the regular expression atom written as the single character c matches
Atom(c) == IF c = "." THEN [kind |-> "any", ch |-> c] ELSE [kind |-> "lit", ch |-> c]

\* mutant of EscapeRegExp: the character goes into the pattern unescaped
EscapeRegExpNone(c) == Atom(c)

\* escapeRegExp followed by RegExp compilation of one character: an escaped
\* metacharacter is a literal
EscapeRegExp(c) == IF c \in MetaChars THEN [kind |-> "lit", ch |-> c] ELSE Atom(c)

\* mutant of WsPlus: the parts are joined with one space
WsSingleSpace == [kind |-> "lit", ch |-> SP]

WsPlus == [kind |-> "ws+", ch |-> SP]

EscapePart(part) == [k \in 1..Len(part) |-> EscapeRegExp(part[k])]

RECURSIVE JoinParts(_)
JoinParts(parts) ==
    IF Len(parts) = 1 THEN EscapePart(parts[1])
    ELSE EscapePart(Head(parts)) \o <<WsPlus>> \o JoinParts(Tail(parts))

Pattern(sentence) == JoinParts(SplitWs(Trim(sentence)))

RECURSIVE WsRun(_, _)
WsRun(text, i) ==
    IF i <= Len(text) /\ text[i] \in WhiteSpace THEN 1 + WsRun(text, i + 1) ELSE 0

\* Backtracking match of pat[k..] against text from slot i (1-based); the
\* result is the index one past the match, or 0 when there is none
RECURSIVE MatchFrom(_, _, _, _)
RECURSIVE MatchWs(_, _, _, _, _)
MatchFrom(text, i, pat, k) ==
    IF k > Len(pat) THEN i
    ELSE IF pat[k].kind = "ws+" THEN MatchWs(text, i, pat, k, WsRun(text, i))
    ELSE IF i > Len(text) THEN 0
    ELSE IF pat[k].kind = "lit" /\ text[i] # pat[k].ch THEN 0
    ELSE IF pat[k].kind = "any" /\ text[i] = NL THEN 0
    ELSE MatchFrom(text, i + 1, pat, k + 1)

MatchWs(text, i, pat, k, n) ==
    IF n < 1 THEN 0
    ELSE LET r == MatchFrom(text, i + n, pat, k + 1)
         IN IF r # 0 THEN r ELSE MatchWs(text, i, pat, k, n - 1)

\* regex.exec(fullText): the leftmost match, as [index, length] (0-based index)
RECURSIVE ExecFrom(_, _, _)
ExecFrom(text, pat, i) ==
    IF i > Len(text) + 1 THEN Null
    ELSE LET r == MatchFrom(text, i, pat, 1)
         IN IF r # 0 THEN [index |-> i - 1, length |-> r - i]
            ELSE ExecFrom(text, pat, i + 1)

\* mutant of Exec: the rightmost match
ExecLast(sentence, fullText) ==
    LET pat == Pattern(sentence)
        hits == {i \in 1..(Len(fullText) + 1) : MatchFrom(fullText, i, pat, 1) # 0}
    IN  IF hits = {} THEN Null
        ELSE LET i == CHOOSE h \in hits : \A g \in hits : g <= h
             IN  [index |-> i - 1, length |-> MatchFrom(fullText, i, pat, 1) - i]

Exec(sentence, fullText) == ExecFrom(fullText, Pattern(sentence), 1)

(***************************************************************************)
(* getPosFromIndex: Editor.tsx 147-167.                                    *)
(***************************************************************************)
RECURSIVE PosScan(_, _, _, _)
PosScan(tokens, targetIndex, k, currentLen) ==
    IF k > Len(tokens)
    THEN IF tokens = <<>> THEN 0
         ELSE tokens[Len(tokens)].pos + Len(tokens[Len(tokens)].text)
    ELSE LET token == tokens[k]
             tokenLen == Len(token.text)
         IN IF targetIndex < currentLen + tokenLen
            THEN IF token.isVirtual THEN token.pos + 1
                 ELSE token.pos + (targetIndex - currentLen)
            ELSE PosScan(tokens, targetIndex, k + 1, currentLen + tokenLen)

\* mutant of GetPosFromIndex: past the end the scan gives the start of the
\* last token
GetPosFromIndexLastStart(tokens, targetIndex) ==
    IF tokens # <<>> /\ targetIndex >= Len(FullText(tokens))
    THEN tokens[Len(tokens)].pos
    ELSE PosScan(tokens, targetIndex, 1, 0)

GetPosFromIndex(tokens, targetIndex) == PosScan(tokens, targetIndex, 1, 0)

(***************************************************************************)
(* Document host primitives used by the editor (TipTap / ProseMirror).     *)
(* Ranges are only ever deleted inside one paragraph or from inside one    *)
(* paragraph to inside a later one, where removing the slots of the range  *)
(* is what Transform.delete does (the two paragraphs are joined).          *)
(***************************************************************************)
DeleteRange(d, from, to) == SubSeq(d, 1, from) \o SubSeq(d, to + 1, Len(d))

\* ResolvedPos.marks() for the bold mark: the marks of the character before
\* the position, or of the one after it when none is before it
BoldAt(d, pos) ==
    IF pos >= 1 /\ IsText(d[pos]) THEN IsBold(d[pos])
    ELSE IF pos < Len(d) /\ IsText(d[pos + 1]) THEN IsBold(d[pos + 1])
    ELSE FALSE

\* insertContentAt(pos, text) for plain text: Transaction.insertText
InsertContentAt(d, pos, text) ==
    SubSeq(d, 1, pos)
        \o [k \in 1..Len(text) |-> WithMark(text[k], BoldAt(d, pos))]
        \o SubSeq(d, pos + 1, Len(d))

\* editor.getHTML(): one HTML token per slot
HtmlOf(s) == CASE s = "A" -> "<strong>a</strong>"
               [] s = "B" -> "<strong>b</strong>"
               [] OTHER -> s

SlotOf(h) == CASE h = "<strong>a</strong>" -> "A"
               [] h = "<strong>b</strong>" -> "B"
               [] OTHER -> h

GetHTML(d) == [k \in 1..Len(d) |-> HtmlOf(d[k])]

EmptyDoc == <<"<p>", "</p>">>

\* ProseMirror's DOMParser on the HTML from token i on: white space is
\* collapsed to one space, and dropped at the start and at the end of a
\* block, after a hard break and between blocks.  st is "start" (no text in
\* this block yet, or a hard break just before), "text" (a character just
\* before) or "space" (white space after a character)
RECURSIVE ParseFrom(_, _, _)
ParseFrom(html, i, st) ==
    IF i > Len(html) THEN <<>>
    ELSE IF html[i] \in WhiteSpace
         THEN ParseFrom(html, i + 1, IF st = "text" THEN "space" ELSE st)
    ELSE IF IsText(SlotOf(html[i]))
         THEN (IF st = "space" THEN <<SP>> ELSE <<>>)
                  \o <<SlotOf(html[i])>> \o ParseFrom(html, i + 1, "text")
    ELSE <<SlotOf(html[i])>> \o ParseFrom(html, i + 1, "start")

\* editor.commands.setContent(content): the parsed document; the schema
\* fills an empty document with one empty paragraph
SetContent(html) ==
    IF ParseFrom(html, 1, "start") = <<>> THEN EmptyDoc ELSE ParseFrom(html, 1, "start")

\* editor.getText(): text of the text nodes, with the block separator "\n\n"
\* before every block node that does not start the document
RECURSIVE GetTextFrom(_, _)
GetTextFrom(d, i) ==
    IF i > Len(d) THEN <<>>
    ELSE (IF IsOpen(d[i]) /\ i > 1 THEN <<NL, NL>>
          ELSE IF IsText(d[i]) THEN <<Plain(d[i])>>
          ELSE IF d[i] = BR THEN <<NL>>
          ELSE <<>>) \o GetTextFrom(d, i + 1)

GetText(d) == GetTextFrom(d, 1)

(***************************************************************************)
(* Feedback records.  A record is a JavaScript object: id is its identity  *)
(* (review number, index in the response, copy number), so that            *)
(* `fb === feedback' is equality of ids.                                   *)
(***************************************************************************)
T1 == [original_sentence |-> <<"b", SP, "b">>, suggested_text |-> <<"a">>,
       start_index |-> 0, end_index |-> 3, severity |-> "high"]
T2 == [original_sentence |-> <<"b">>, suggested_text |-> <<"a">>,
       start_index |-> 2, end_index |-> 3, severity |-> "low"]
ResponseLists == {<<T1, T2>>}
RawStatus == {"absent", "pending", "accepted", "rejected"}

Same(fb, feedback) == fb.id = feedback.id

\* mutant of WithPendingStatus: { status: 'pending', ...fb }
WithRawStatus(raw, gen, idx) ==
    [id |-> <<gen, idx, 0>>,
     original_sentence |-> raw.original_sentence,
     suggested_text |-> raw.suggested_text,
     start_index |-> raw.start_index,
     end_index |-> raw.end_index,
     severity |-> raw.severity,
     status |-> IF raw.status = "absent" THEN "pending" ELSE raw.status]

\* App.tsx 73-76: { ...fb, status: 'pending' }
WithPendingStatus(raw, gen, idx) ==
    [id |-> <<gen, idx, 0>>,
     original_sentence |-> raw.original_sentence,
     suggested_text |-> raw.suggested_text,
     start_index |-> raw.start_index,
     end_index |-> raw.end_index,
     severity |-> raw.severity,
     status |-> "pending"]

\* { ...fb, status } : a new object
WithStatus(fb, st) == [fb EXCEPT !.id = <<fb.id[1], fb.id[2], fb.id[3] + 1>>, !.status = st]

MapStatus(feedbacks, feedback, st) ==
    [k \in 1..Len(feedbacks) |->
        IF Same(feedbacks[k], feedback) THEN WithStatus(feedbacks[k], st) ELSE feedbacks[k]]

(***************************************************************************)
(* State.                                                                  *)
(*   doc               the editor's ProseMirror document                   *)
(*   content .. feedbackToAccept            the useState cells of App      *)
(*   isMarkdownMode    the useState cell of Editor                         *)
(*   phase, dirty      position in React's render cycle: an event handler  *)
(*                     runs when phase = "idle"; a state change schedules  *)
(*                     a render of App, whose effects run in declaration   *)
(*                     order ("sync", then "accept"); dirty says that an   *)
(*                     effect of this render changed App state again       *)
(*   reviews           number of review responses stored so far (gives the *)
(*                     objects of each response their identity)            *)
(*   ev                the event whose render cycle is running ("none"     *)
(*                     once React is idle again)                           *)
(*   attempt           observation: what the accept effect did in the      *)
(*                     latest render                                       *)
(*   failed            observation: how the first accept attempt for the   *)
(*                     object now in feedbackToAccept failed ("no" when    *)
(*                     none has failed)                                    *)
(*   probe             result of the pure index build (SpecIndex only)     *)
(***************************************************************************)
VARIABLES doc, content, plainText, title, reviewData, reviews, isReviewing,
          selectedFeedback, feedbackToAccept, isMarkdownMode,
          phase, dirty, ev, attempt, failed, probe

vars == <<doc, content, plainText, title, reviewData, reviews, isReviewing,
          selectedFeedback, feedbackToAccept, isMarkdownMode,
          phase, dirty, ev, attempt, failed, probe>>

appState == <<content, plainText, title, reviewData, reviews, isReviewing,
              selectedFeedback, feedbackToAccept>>

NoAttempt == "none"

Init ==
    /\ doc = EmptyDoc
    /\ content = <<>>
    /\ plainText = <<>>
    /\ title = <<>>
    /\ reviewData = Null
    /\ reviews = 0
    /\ isReviewing = FALSE
    /\ selectedFeedback = Null
    /\ feedbackToAccept = Null
    /\ isMarkdownMode = FALSE
    /\ phase = "idle"
    /\ dirty = FALSE
    /\ ev = "none"
    /\ attempt = NoAttempt
    /\ failed = "no"
    /\ probe = Null

\* an event handler has run: React renders App again when it changed state
Handled(name, changed) ==
    /\ ev' = IF changed THEN name ELSE "none"
    /\ attempt' = NoAttempt
    /\ phase' = IF changed THEN "sync" ELSE "idle"
    /\ dirty' = FALSE
    /\ probe' = probe

(***************************************************************************)
(* Typing in the rich-text editor: the document changes and onUpdate       *)
(* (Editor.tsx 41-44) hands HTML and text to handleContentChange           *)
(* (App.tsx 39-42).                                                        *)
(***************************************************************************)
EditChars == {"b", SP}

InParagraph(d, p) == p >= 1 /\ p < Len(d) /\ (d[p] = "<p>" \/ IsText(d[p]))

Edits(d) ==
    {SubSeq(d, 1, p) \o <<c>> \o SubSeq(d, p + 1, Len(d)) :
        p \in {q \in 1..Len(d) : InParagraph(d, q) /\ Len(d) + 1 <= MaxDocSize}, c \in EditChars}
    \cup {SubSeq(d, 1, i - 1) \o SubSeq(d, i + 1, Len(d)) : i \in {j \in 1..Len(d) : IsText(d[j])}}
    \cup {SubSeq(d, 1, p) \o <<"</p>", "<p>">> \o SubSeq(d, p + 1, Len(d)) :
        p \in {q \in 1..Len(d) : InParagraph(d, q) /\ Len(d) + 2 <= MaxDocSize}}
    \cup {SubSeq(d, 1, i - 1) \o SubSeq(d, i + 2, Len(d)) :
        i \in {j \in 1..(Len(d) - 1) : d[j] = "</p>" /\ d[j + 1] = "<p>"}}

EditDoc ==
    /\ phase = "idle"
    /\ ~isMarkdownMode
    /\ \E d \in Edits(doc) :
        /\ doc' = d
        /\ content' = GetHTML(d)
        /\ plainText' = GetText(d)
    /\ UNCHANGED <<title, reviewData, reviews, isReviewing, selectedFeedback,
                   feedbackToAccept, isMarkdownMode, failed>>
    /\ Handled("edit", TRUE)

\* the title input: App.tsx 163-169
TypeTitle ==
    /\ phase = "idle"
    /\ title' = IF title = <<>> THEN <<"t">> ELSE <<>>
    /\ UNCHANGED <<doc, content, plainText, reviewData, reviews, isReviewing,
                   selectedFeedback, feedbackToAccept, isMarkdownMode, failed>>
    /\ Handled("title", TRUE)

\* the Markdown / Visual Editor button: Editor.tsx 301-306 (state of Editor only)
ToggleMode ==
    /\ phase = "idle"
    /\ isMarkdownMode' = ~isMarkdownMode
    /\ UNCHANGED <<doc, content, plainText, title, reviewData, reviews, isReviewing,
                   selectedFeedback, feedbackToAccept, failed>>
    /\ Handled("mode", FALSE)

(***************************************************************************)
(* Review: App.tsx 44-90.  The Submit button is disabled while a request   *)
(* is in flight or the plain text is blank (App.tsx 186).                  *)
(***************************************************************************)
IsBlank(text) == \A k \in 1..Len(text) : text[k] \in WhiteSpace

StartReview(max) ==
    /\ phase = "idle"
    /\ ~isReviewing
    /\ ~IsBlank(plainText)
    /\ reviews < max
    /\ isReviewing' = TRUE
    /\ UNCHANGED <<doc, content, plainText, title, reviewData, reviews,
                   selectedFeedback, feedbackToAccept, isMarkdownMode, failed>>
    /\ Handled("review", TRUE)

HandleReview == StartReview(MaxReviews)

\* the feedbacks of a response, as stored: App.tsx 73-81
FeedbacksWithStatus(raws, gen) ==
    [k \in 1..Len(raws) |-> WithPendingStatus(raws[k], gen, k)]

\* the response arrives with one of the feedback lists of `lists'
StoreResponse(lists) ==
    /\ phase = "idle"
    /\ isReviewing
    /\ \E list \in lists :
       \E st \in [1..Len(list) -> RawStatus] :
          LET raws == [k \in 1..Len(list) |->
                          [original_sentence |-> list[k].original_sentence,
                           suggested_text |-> list[k].suggested_text,
                           start_index |-> list[k].start_index,
                           end_index |-> list[k].end_index,
                           severity |-> list[k].severity,
                           status |-> st[k]]]
          IN reviewData' = [feedbacks |-> FeedbacksWithStatus(raws, reviews + 1)]
    /\ reviews' = reviews + 1
    /\ isReviewing' = FALSE
    /\ UNCHANGED <<doc, content, plainText, title, selectedFeedback,
                   feedbackToAccept, isMarkdownMode, failed>>
    /\ Handled("response", TRUE)

ReviewResponse == StoreResponse(ResponseLists)

\* fetch rejected or response not ok: App.tsx 66-68, 84-89
ReviewFailed ==
    /\ phase = "idle"
    /\ isReviewing
    /\ isReviewing' = FALSE
    /\ UNCHANGED <<doc, content, plainText, title, reviewData, reviews, selectedFeedback,
                   feedbackToAccept, isMarkdownMode, failed>>
    /\ Handled("response", TRUE)

(***************************************************************************)
(* Feedback panel (unnamed/part_000 67-68, 135-192): only the pending      *)
(* records are listed, each with its select, Merge and Dismiss triggers.   *)
(***************************************************************************)
\* mutant of PendingFeedbacks: the panel lists every record
AllFeedbacks(rd) == IF rd = Null THEN {} ELSE 1..Len(rd.feedbacks)

PendingFeedbacks(rd) ==
    IF rd = Null THEN {}
    ELSE {k \in 1..Len(rd.feedbacks) : rd.feedbacks[k].status = "pending"}

\* onSelectFeedback = setSelectedFeedback: App.tsx 236
SelectFeedback ==
    /\ phase = "idle"
    /\ \E k \in PendingFeedbacks(reviewData) :
        /\ selectedFeedback' = reviewData.feedbacks[k]
        /\ Handled("select", selectedFeedback' # selectedFeedback)
    /\ UNCHANGED <<doc, content, plainText, title, reviewData, reviews, isReviewing,
                   feedbackToAccept, isMarkdownMode, failed>>

\* handleAcceptFeedback: App.tsx 92-95
HandleAcceptFeedback ==
    /\ phase = "idle"
    /\ \E k \in PendingFeedbacks(reviewData) :
        /\ feedbackToAccept' = reviewData.feedbacks[k]
        /\ failed' = IF feedbackToAccept' = feedbackToAccept THEN failed ELSE "no"
        /\ Handled("accept", feedbackToAccept' # feedbackToAccept)
    /\ UNCHANGED <<doc, content, plainText, title, reviewData, reviews, isReviewing,
                   selectedFeedback, isMarkdownMode>>

\* handleRejectFeedback: App.tsx 113-126
HandleRejectFeedback ==
    /\ phase = "idle"
    /\ \E k \in PendingFeedbacks(reviewData) :
        reviewData' = [feedbacks |->
            MapStatus(reviewData.feedbacks, reviewData.feedbacks[k], "rejected")]
    /\ selectedFeedback' = Null
    /\ UNCHANGED <<doc, content, plainText, title, reviews, isReviewing,
                   feedbackToAccept, isMarkdownMode, failed>>
    /\ Handled("reject", TRUE)

\* mutant of HandleReset: the Reset button stays enabled during a review
HandleResetWhileReviewing ==
    /\ phase = "idle"
    /\ content' = <<>>
    /\ plainText' = <<>>
    /\ title' = <<>>
    /\ reviewData' = Null
    /\ selectedFeedback' = Null
    /\ UNCHANGED <<doc, reviews, isReviewing, feedbackToAccept, isMarkdownMode, failed>>
    /\ Handled("reset", <<content', plainText', title', reviewData', selectedFeedback'>>
                         # <<content, plainText, title, reviewData, selectedFeedback>>)

\* handleReset: App.tsx 128-134; the button is disabled while reviewing (204)
HandleReset ==
    /\ phase = "idle"
    /\ ~isReviewing
    /\ content' = <<>>
    /\ plainText' = <<>>
    /\ title' = <<>>
    /\ reviewData' = Null
    /\ selectedFeedback' = Null
    /\ UNCHANGED <<doc, reviews, isReviewing, feedbackToAccept, isMarkdownMode, failed>>
    /\ Handled("reset", <<content', plainText', title', reviewData', selectedFeedback'>>
                         # <<content, plainText, title, reviewData, selectedFeedback>>)

(***************************************************************************)
(* Effects of Editor, run after a render of App.                           *)
(***************************************************************************)
\* Editor.tsx 53-64: the content prop is pushed into the editor when it
\* differs from the editor's HTML; setContent emits onUpdate
SyncContent ==
    /\ phase = "sync"
    /\ IF content # GetHTML(doc)
       THEN /\ doc' = SetContent(content)
            /\ content' = GetHTML(doc')
            /\ plainText' = GetText(doc')
            /\ dirty' = (content' # content \/ plainText' # plainText)
       ELSE /\ UNCHANGED <<doc, content, plainText>>
            /\ dirty' = FALSE
    /\ phase' = "accept"
    /\ attempt' = NoAttempt
    /\ UNCHANGED <<title, reviewData, reviews, isReviewing, selectedFeedback,
                   feedbackToAccept, isMarkdownMode, ev, failed, probe>>

\* mutant of Located: no match is taken for a match at the document start
LocatedOrStart(d, feedback) ==
    LET tokens == Tokens(d)
        fullText == FullText(tokens)
        match == Exec(feedback.original_sentence, fullText)
        m == IF match = Null THEN [index |-> 0, length |-> 0] ELSE match
    IN  [startIndex |-> m.index,
         endIndex |-> m.index + m.length,
         from |-> GetPosFromIndex(tokens, m.index),
         to |-> GetPosFromIndex(tokens, m.index + m.length)]

\* Editor.tsx 115-170: index, locate and map the match to document positions
Located(d, feedback) ==
    LET tokens == Tokens(d)
        fullText == FullText(tokens)
        match == Exec(feedback.original_sentence, fullText)
    IN  IF match = Null THEN Null
        ELSE [startIndex |-> match.index,
              endIndex |-> match.index + match.length,
              from |-> GetPosFromIndex(tokens, match.index),
              to |-> GetPosFromIndex(tokens, match.index + match.length)]

\* mutant of ApplySuggestion: the insertion is chained before the deletion
ApplySuggestionInsertFirst(d, span, text) ==
    DeleteRange(InsertContentAt(d, span.from, text), span.from, span.to)

\* Editor.tsx 173-177: deleteRange({from, to}) then insertContentAt(from, text)
ApplySuggestion(d, span, text) ==
    InsertContentAt(DeleteRange(d, span.from, span.to), span.from, text)

\* onFeedbackAccepted, App.tsx 97-111: the new reviewData
OnFeedbackAccepted(rd, feedback) ==
    IF rd = Null THEN Null
    ELSE [feedbacks |-> MapStatus(rd.feedbacks, feedback, "accepted")]

\* a render is scheduled when an effect of this render changed App state
AfterEffects(changed) == IF changed THEN "sync" ELSE "idle"
EventAfter(changed) == IF changed THEN ev ELSE "none"

\* Editor.tsx 109: nothing to accept
AcceptIdle ==
    /\ phase = "accept"
    /\ feedbackToAccept = Null
    /\ phase' = AfterEffects(dirty)
    /\ ev' = EventAfter(dirty)
    /\ UNCHANGED <<doc, content, plainText, title, reviewData, reviews, isReviewing,
                   selectedFeedback, feedbackToAccept, isMarkdownMode, dirty,
                   attempt, failed, probe>>

\* Editor.tsx 185-188: no match
AcceptNotFound ==
    /\ phase = "accept"
    /\ feedbackToAccept # Null
    /\ Located(doc, feedbackToAccept) = Null
    /\ attempt' = "notfound"
    /\ failed' = IF failed = "no" THEN "notfound" ELSE failed
    /\ phase' = AfterEffects(dirty)
    /\ ev' = EventAfter(dirty)
    /\ UNCHANGED <<doc, content, plainText, title, reviewData, reviews, isReviewing,
                   selectedFeedback, feedbackToAccept, isMarkdownMode, dirty, probe>>

\* mutant of AcceptFailed: onAcceptComplete is called before the edit is run
AcceptFailedSignals ==
    /\ phase = "accept"
    /\ feedbackToAccept # Null
    /\ Located(doc, feedbackToAccept) # Null
    /\ reviewData' = OnFeedbackAccepted(reviewData, feedbackToAccept)
    /\ feedbackToAccept' = IF reviewData = Null THEN feedbackToAccept ELSE Null
    /\ selectedFeedback' = IF reviewData = Null THEN selectedFeedback ELSE Null
    /\ attempt' = "failed"
    /\ failed' = IF failed = "no" THEN "raised" ELSE failed
    /\ phase' = AfterEffects(dirty \/ reviewData # Null)
    /\ ev' = EventAfter(dirty \/ reviewData # Null)
    /\ UNCHANGED <<doc, content, plainText, title, reviews, isReviewing,
                   isMarkdownMode, dirty, probe>>

\* Editor.tsx 180-183: the chained edit raised; the transaction was not
\* dispatched
AcceptFailed ==
    /\ phase = "accept"
    /\ feedbackToAccept # Null
    /\ Located(doc, feedbackToAccept) # Null
    /\ attempt' = "failed"
    /\ failed' = IF failed = "no" THEN "raised" ELSE failed
    /\ phase' = AfterEffects(dirty)
    /\ ev' = EventAfter(dirty)
    /\ UNCHANGED <<doc, content, plainText, title, reviewData, reviews, isReviewing,
                   selectedFeedback, feedbackToAccept, isMarkdownMode, dirty, probe>>

\* Editor.tsx 172-179: the edit is applied (onUpdate reports it to App), then
\* onAcceptComplete = onFeedbackAccepted runs
AcceptOk ==
    /\ phase = "accept"
    /\ feedbackToAccept # Null
    /\ LET span == Located(doc, feedbackToAccept)
       IN  /\ span # Null
           /\ span.from <= span.to
           /\ doc' = ApplySuggestion(doc, span, feedbackToAccept.suggested_text)
    /\ content' = GetHTML(doc')
    /\ plainText' = GetText(doc')
    /\ reviewData' = OnFeedbackAccepted(reviewData, feedbackToAccept)
    /\ feedbackToAccept' = IF reviewData = Null THEN feedbackToAccept ELSE Null
    /\ selectedFeedback' = IF reviewData = Null THEN selectedFeedback ELSE Null
    /\ attempt' = "ok"
    /\ failed' = IF reviewData = Null THEN failed ELSE "no"
    /\ LET changed == dirty \/ content' # content \/ plainText' # plainText
                             \/ reviewData # Null
       IN  phase' = AfterEffects(changed) /\ ev' = EventAfter(changed)
    /\ UNCHANGED <<title, reviews, isReviewing, isMarkdownMode, dirty, probe>>

Next ==
    \/ EditDoc
    \/ TypeTitle
    \/ ToggleMode
    \/ HandleReview
    \/ ReviewResponse
    \/ ReviewFailed
    \/ SelectFeedback
    \/ HandleAcceptFeedback
    \/ HandleRejectFeedback
    \/ HandleReset
    \/ SyncContent
    \/ AcceptIdle
    \/ AcceptNotFound
    \/ AcceptFailed
    \/ AcceptOk

Spec == Init /\ [][Next]_vars

(***************************************************************************)
(* SpecIndex: the offset index as a pure function of the document.  The    *)
(* documents are those a user can build in the editor from paragraphs      *)
(* (with bold runs, possibly empty) and bullet lists (possibly nested).    *)
(***************************************************************************)
MaxIndexText == 2
MaxIndexBlocks == 2

IndexChars == {"a", "B"}
Texts(n) == UNION {[1..k -> IndexChars] : k \in 0..n}
Para(t) == <<"<p>">> \o t \o <<"</p>">>
Item(b) == <<"<li>">> \o b \o <<"</li>">>
List(b) == <<"<ul>">> \o b \o <<"</ul>">>

IndexBlocks ==
    {Para(t) : t \in Texts(MaxIndexText)}
    \cup {List(Item(Para(t))) : t \in Texts(1)}
    \cup {List(Item(Para(t) \o List(Item(Para(<<"a">>))))) : t \in Texts(1)}

IndexDocs == UNION {{Concat(bs) : bs \in [1..n -> IndexBlocks]} : n \in 1..MaxIndexBlocks}

InitIndex ==
    /\ doc \in IndexDocs
    /\ content = GetHTML(doc)
    /\ plainText = GetText(doc)
    /\ title = <<>>
    /\ reviewData = Null
    /\ reviews = 0
    /\ isReviewing = FALSE
    /\ selectedFeedback = Null
    /\ feedbackToAccept = Null
    /\ isMarkdownMode = FALSE
    /\ phase = "index"
    /\ dirty = FALSE
    /\ ev = "none"
    /\ attempt = NoAttempt
    /\ failed = "no"
    /\ probe = Null

\* Editor.tsx 115-127 on the current document
BuildIndex ==
    /\ phase = "index"
    /\ probe' = [tokens |-> Tokens(doc), fullText |-> FullText(Tokens(doc))]
    /\ phase' = "indexed"
    /\ UNCHANGED <<doc, content, plainText, title, reviewData, reviews, isReviewing,
                   selectedFeedback, feedbackToAccept, isMarkdownMode, dirty, ev,
                   attempt, failed>>

NextIndex == BuildIndex

SpecIndex == InitIndex /\ [][NextIndex]_vars

(***************************************************************************)
(* SpecPos: getPosFromIndex as a pure function of the document and of a    *)
(* flat offset.  The documents are those of SpecIndex and paragraphs that  *)
(* hold a hard break; the offsets run past the end of the flat text.       *)
(***************************************************************************)
PosDocs ==
    IndexDocs \cup {Para(t \o <<BR>> \o u) : t \in Texts(1), u \in Texts(1)}

InitPos ==
    /\ doc \in PosDocs
    /\ content = GetHTML(doc)
    /\ plainText = GetText(doc)
    /\ title = <<>>
    /\ reviewData = Null
    /\ reviews = 0
    /\ isReviewing = FALSE
    /\ selectedFeedback = Null
    /\ feedbackToAccept = Null
    /\ isMarkdownMode = FALSE
    /\ phase = "pos"
    /\ dirty = FALSE
    /\ ev = "none"
    /\ attempt = NoAttempt
    /\ failed = "no"
    /\ probe = Null

\* Editor.tsx 115-127 and one call of getPosFromIndex (147-167)
LookupPos ==
    /\ phase = "pos"
    /\ LET tokens == Tokens(doc)
           fullText == FullText(tokens)
       IN \E targetIndex \in 0..(Len(fullText) + 1) :
             probe' = [tokens |-> tokens, fullText |-> fullText,
                       targetIndex |-> targetIndex,
                       pos |-> GetPosFromIndex(tokens, targetIndex)]
    /\ phase' = "looked"
    /\ UNCHANGED <<doc, content, plainText, title, reviewData, reviews, isReviewing,
                   selectedFeedback, feedbackToAccept, isMarkdownMode, dirty, ev,
                   attempt, failed>>

NextPos == LookupPos

SpecPos == InitPos /\ [][NextPos]_vars

(***************************************************************************)
(* SpecLocate: the locator (Editor.tsx 129-144) as a pure function of the  *)
(* sentence and of the flat text.                                          *)
(***************************************************************************)
MaxSentenceLen == 3
MaxFlatLen == 4

SentenceChars == {"a", ".", SP}
FlatChars == {"a", ".", SP, NL}
Strings(chars, n) == UNION {[1..k -> chars] : k \in 0..n}

InitLocate ==
    /\ doc = EmptyDoc
    /\ content = <<>>
    /\ plainText = <<>>
    /\ title = <<>>
    /\ reviewData = Null
    /\ reviews = 0
    /\ isReviewing = FALSE
    /\ selectedFeedback = Null
    /\ feedbackToAccept = Null
    /\ isMarkdownMode = FALSE
    /\ phase = "locate"
    /\ dirty = FALSE
    /\ ev = "none"
    /\ attempt = NoAttempt
    /\ failed = "no"
    /\ \E sentence \in Strings(SentenceChars, MaxSentenceLen) :
       \E fullText \in Strings(FlatChars, MaxFlatLen) :
          probe = [original_sentence |-> sentence, fullText |-> fullText]

\* Editor.tsx 136-144: match, startIndex, endIndex
Locate ==
    /\ phase = "locate"
    /\ probe' = [original_sentence |-> probe.original_sentence,
                 fullText |-> probe.fullText,
                 match |-> Exec(probe.original_sentence, probe.fullText)]
    /\ phase' = "located"
    /\ UNCHANGED <<doc, content, plainText, title, reviewData, reviews, isReviewing,
                   selectedFeedback, feedbackToAccept, isMarkdownMode, dirty, ev,
                   attempt, failed>>

NextLocate == Locate

SpecLocate == InitLocate /\ [][NextLocate]_vars

(***************************************************************************)
(* Highlight effect: Editor.tsx 193-246.  The rendered view (editor.view   *)
(* .dom) is modelled by its characters in document order.  Each character  *)
(* carries the run of the document it was rendered from (characters of one *)
(* run with the same mark share a DOM text node) and the stack of          *)
(* mark.highlight elements around it, outermost first.  A DOM text node is *)
(* a maximal run of adjacent characters with the same run, mark and stack. *)
(***************************************************************************)
TextIndexes(d) == SelectSeq([i \in 1..Len(d) |-> i], LAMBDA i : IsText(d[i]))

\* the view ProseMirror renders for document d, without any marker
RenderDoc(d) ==
    LET idx == TextIndexes(d)
    IN  [k \in 1..Len(idx) |->
            [ch |-> Plain(d[idx[k]]),
             run |-> Cardinality({j \in 1..idx[k] : ~IsText(d[j])}),
             bold |-> IsBold(d[idx[k]]),
             marks |-> <<>>]]

SameTextNode(view, i, j) ==
    /\ view[i].run = view[j].run
    /\ view[i].bold = view[j].bold
    /\ view[i].marks = view[j].marks

\* the last character of the DOM text node that holds character i
RECURSIVE NodeEndOf(_, _)
NodeEndOf(view, i) ==
    IF i < Len(view) /\ SameTextNode(view, i, i + 1) THEN NodeEndOf(view, i + 1) ELSE i

\* mutant of ClearMarks: the markers are left in place
ClearMarksNone(view) == view

\* Editor.tsx 199-205: every mark.highlight element is replaced by a text
\* node holding its text, and its parent is normalized
ClearMarks(view) == [i \in 1..Len(view) |-> [view[i] EXCEPT !.marks = <<>>]]

\* Editor.tsx 233-235: the mark element made for a feedback record
Marker(feedback, selected) ==
    [id |-> feedback.id,
     severity |-> feedback.severity,
     selected |-> (selected # Null /\ Same(selected, feedback))]

\* Editor.tsx 213-244: the walk over the text nodes for one feedback record;
\* only the node that holds start_index can satisfy the test of line 222
PaintOne(view, feedback, selected) ==
    LET start_index == feedback.start_index
        end_index == feedback.end_index
    IN  IF start_index < 0 \/ start_index >= Len(view) THEN view
        ELSE LET nodeEnd == NodeEndOf(view, start_index + 1)
                 last == IF end_index < nodeEnd THEN end_index ELSE nodeEnd
             IN  IF start_index < last
                 THEN [i \in 1..Len(view) |->
                          IF i > start_index /\ i <= last
                          THEN [view[i] EXCEPT
                                   !.marks = Append(@, Marker(feedback, selected))]
                          ELSE view[i]]
                 ELSE view

\* mutant of HighlightPending: every record is painted
HighlightAll(feedbacks) == feedbacks

\* Editor.tsx 208
HighlightPending(feedbacks) == SelectSeq(feedbacks, LAMBDA fb : fb.status = "pending")

RECURSIVE PaintFrom(_, _, _, _)
PaintFrom(view, pendingFeedbacks, selected, k) ==
    IF k > Len(pendingFeedbacks) THEN view
    ELSE PaintFrom(PaintOne(view, pendingFeedbacks[k], selected),
                   pendingFeedbacks, selected, k + 1)

\* one run of the effect on the view, past the early return of line 194
Refresh(view, feedbacks, selected) ==
    PaintFrom(ClearMarks(view), HighlightPending(feedbacks), selected, 1)

\* the feedbacks prop: App.tsx 175
FeedbacksProp == IF reviewData = Null THEN <<>> ELSE reviewData.feedbacks

\* the values of the dependency list of line 246 that can change
HighlightDeps == <<FeedbacksProp, selectedFeedback, isMarkdownMode>>

HighlightDue == probe.deps # HighlightDeps

\* the number of leading characters two views have in common
RECURSIVE CommonPrefix(_, _)
CommonPrefix(v, w) ==
    IF v # <<>> /\ w # <<>> /\ Head(v).ch = Head(w).ch /\ Head(v).bold = Head(w).bold
    THEN 1 + CommonPrefix(Tail(v), Tail(w))
    ELSE 0

\* the view the effect finds: the one it left when the document has not
\* changed since; after a change of the document ProseMirror has redrawn
\* it, dropping all markers or keeping those on the text before the change
ViewsOf(view, d) ==
    LET fresh == RenderDoc(d)
        n == CommonPrefix(view, fresh)
    IN  IF ClearMarks(view) = fresh THEN {view}
        ELSE {fresh,
              [i \in 1..Len(fresh) |->
                  IF i <= n THEN [fresh[i] EXCEPT !.marks = view[i].marks]
                  ELSE fresh[i]]}

\* mutant of HighlightRefresh: the effect has no early return for the
\* Markdown mode
HighlightRefreshAlways ==
    /\ phase = "idle"
    /\ HighlightDue
    /\ \E view \in ViewsOf(probe.view, doc) :
          probe' = [view |-> Refresh(view, FeedbacksProp, selectedFeedback),
                    deps |-> HighlightDeps]
    /\ UNCHANGED <<doc, content, plainText, title, reviewData, reviews, isReviewing,
                   selectedFeedback, feedbackToAccept, isMarkdownMode, phase, dirty,
                   ev, attempt, failed>>

\* the effect, run once React has settled and its dependencies changed
HighlightRefresh ==
    /\ phase = "idle"
    /\ HighlightDue
    /\ IF isMarkdownMode
       THEN probe' = [view |-> probe.view, deps |-> HighlightDeps]
       ELSE \E view \in ViewsOf(probe.view, doc) :
               probe' = [view |-> Refresh(view, FeedbacksProp, selectedFeedback),
                         deps |-> HighlightDeps]
    /\ UNCHANGED <<doc, content, plainText, title, reviewData, reviews, isReviewing,
                   selectedFeedback, feedbackToAccept, isMarkdownMode, phase, dirty,
                   ev, attempt, failed>>

\* ProseMirror redraws its view, which drops the foreign mark elements
ViewRedraw ==
    /\ phase = "idle"
    /\ ~HighlightDue
    /\ probe.view # RenderDoc(doc)
    /\ probe' = [view |-> RenderDoc(doc), deps |-> probe.deps]
    /\ UNCHANGED <<doc, content, plainText, title, reviewData, reviews, isReviewing,
                   selectedFeedback, feedbackToAccept, isMarkdownMode, phase, dirty,
                   ev, attempt, failed>>

(***************************************************************************)
(* SpecHighlight: App, FeedbackPanel and Editor with the highlight effect, *)
(* on documents that are only changed by accept and reset, and with       *)
(* feedback ranges that overlap or not.                                    *)
(***************************************************************************)
H1 == [original_sentence |-> <<"b">>, suggested_text |-> <<"a">>,
       start_index |-> 0, end_index |-> 2, severity |-> "high"]
H2 == [original_sentence |-> <<"a">>, suggested_text |-> <<"b">>,
       start_index |-> 1, end_index |-> 3, severity |-> "low"]
H3 == [original_sentence |-> <<"a">>, suggested_text |-> <<"b">>,
       start_index |-> 2, end_index |-> 3, severity |-> "low"]
HighlightLists == {<<H1, H2>>, <<H1, H3>>}

HighlightDocs ==
    {Para(<<"b", "a", "b">>), Para(<<"b", "A", "b">>), Para(<<"b", "a">>) \o Para(<<"b">>)}

InitHighlight ==
    /\ doc \in HighlightDocs
    /\ content = GetHTML(doc)
    /\ plainText = GetText(doc)
    /\ title = <<>>
    /\ reviewData = Null
    /\ reviews = 0
    /\ isReviewing = FALSE
    /\ selectedFeedback = Null
    /\ feedbackToAccept = Null
    /\ isMarkdownMode = FALSE
    /\ phase = "idle"
    /\ dirty = FALSE
    /\ ev = "none"
    /\ attempt = NoAttempt
    /\ failed = "no"
    /\ probe = [view |-> RenderDoc(doc), deps |-> <<<<>>, Null, FALSE>>]

ReviewResponseHighlight == StoreResponse(HighlightLists)

\* an event or an effect of a render; events wait for the highlight effect
\* of the last render
Settled(A) == (phase = "idle" => ~HighlightDue) /\ A

NextHighlight ==
    \/ HighlightRefresh
    \/ ViewRedraw
    \/ Settled(HandleReview)
    \/ Settled(ReviewResponseHighlight)
    \/ Settled(ReviewFailed)
    \/ Settled(SelectFeedback)
    \/ Settled(HandleAcceptFeedback)
    \/ Settled(HandleRejectFeedback)
    \/ Settled(HandleReset)
    \/ Settled(ToggleMode)
    \/ Settled(SyncContent)
    \/ Settled(AcceptIdle)
    \/ Settled(AcceptNotFound)
    \/ Settled(AcceptFailed)
    \/ Settled(AcceptOk)

SpecHighlight == InitHighlight /\ [][NextHighlight]_vars

(***************************************************************************)
(* SpecSession: a session of several reviews of a document that is only    *)
(* changed by accept and reset.  The ranges of the records are those of    *)
(* their sentences in the text "bba".                                      *)
(***************************************************************************)
MaxSessionReviews == 2

S1 == [original_sentence |-> <<"b", "b">>, suggested_text |-> <<"a">>,
       start_index |-> 0, end_index |-> 2, severity |-> "high"]
S2 == [original_sentence |-> <<"a">>, suggested_text |-> <<"b">>,
       start_index |-> 2, end_index |-> 3, severity |-> "low"]
SessionLists == {<<S1, S2>>}

SessionDocs == {Para(<<"b", "b", "a">>), Para(<<"b", "b">>) \o Para(<<"a">>)}

InitSession ==
    /\ doc \in SessionDocs
    /\ content = GetHTML(doc)
    /\ plainText = GetText(doc)
    /\ title = <<>>
    /\ reviewData = Null
    /\ reviews = 0
    /\ isReviewing = FALSE
    /\ selectedFeedback = Null
    /\ feedbackToAccept = Null
    /\ isMarkdownMode = FALSE
    /\ phase = "idle"
    /\ dirty = FALSE
    /\ ev = "none"
    /\ attempt = NoAttempt
    /\ failed = "no"
    /\ probe = Null

HandleReviewSession == StartReview(MaxSessionReviews)

ReviewResponseSession == StoreResponse(SessionLists)

NextSession ==
    \/ HandleReviewSession
    \/ ReviewResponseSession
    \/ ReviewFailed
    \/ SelectFeedback
    \/ HandleAcceptFeedback
    \/ HandleRejectFeedback
    \/ HandleReset
    \/ SyncContent
    \/ AcceptIdle
    \/ AcceptNotFound
    \/ AcceptFailed
    \/ AcceptOk

SpecSession == InitSession /\ [][NextSession]_vars


(***************************************************************************)
(* SpecChain: the chained edit of the accept effect (Editor.tsx 172-177)   *)
(* as a pure function of the document and of the record: the documents     *)
(* that onUpdate (Editor.tsx 41-44) is called with.                        *)
(***************************************************************************)
\* mutant of ChainRun: each command is run, and dispatched, on its own
ChainRunEach(d, span, text) ==
    <<DeleteRange(d, span.from, span.to), ApplySuggestion(d, span, text)>>

\* chain() ... run(): the commands add their steps to one transaction, which
\* run() dispatches; onUpdate is called once per dispatched transaction
ChainRun(d, span, text) == <<ApplySuggestion(d, span, text)>>

ChainRecords == {H1, H2, S1, T2}

InitChain ==
    /\ doc \in IndexDocs
    /\ content = GetHTML(doc)
    /\ plainText = GetText(doc)
    /\ title = <<>>
    /\ reviewData = Null
    /\ reviews = 0
    /\ isReviewing = FALSE
    /\ selectedFeedback = Null
    /\ \E raw \in ChainRecords :
          feedbackToAccept = WithPendingStatus(raw, 1, 1)
    /\ isMarkdownMode = FALSE
    /\ phase = "chain"
    /\ dirty = FALSE
    /\ ev = "none"
    /\ attempt = NoAttempt
    /\ failed = "no"
    /\ probe = Null

\* Editor.tsx 140-177 on the current document: the span and the updates
RunChain ==
    /\ phase = "chain"
    /\ LET span == Located(doc, feedbackToAccept)
       IN  probe' = [span |-> span,
                     updates |-> IF span # Null /\ span.from <= span.to
                                 THEN ChainRun(doc, span, feedbackToAccept.suggested_text)
                                 ELSE <<>>]
    /\ phase' = "chained"
    /\ UNCHANGED <<doc, content, plainText, title, reviewData, reviews, isReviewing,
                   selectedFeedback, feedbackToAccept, isMarkdownMode, dirty, ev,
                   attempt, failed>>

NextChain == RunChain

SpecChain == InitChain /\ [][NextChain]_vars

(***************************************************************************)
(* Markdown mode: Editor.tsx 29-31, 66-105, 311-318.  The Markdown text is *)
(* a sequence of characters; the documents are paragraphs of plain text,   *)
(* on which turndown and marked do what is modelled here.                  *)
(***************************************************************************)
MaxMdLen == 4

\* turndownService.turndown(html) from token i on: a paragraph's text with
\* its white space collapsed and trimmed, blank paragraphs left out, "\n\n"
\* between paragraphs, "  \n" for a hard break.  any: some text is out;
\* st as in ParseFrom, or "br" after a hard break
RECURSIVE TurndownFrom(_, _, _, _)
TurndownFrom(html, i, any, st) ==
    IF i > Len(html) THEN <<>>
    ELSE IF html[i] \in WhiteSpace
         THEN TurndownFrom(html, i + 1, any, IF st = "text" THEN "space" ELSE st)
    ELSE IF IsText(SlotOf(html[i]))
         THEN (IF st = "space" THEN <<SP>>
               ELSE IF st = "start" /\ any THEN <<NL, NL>>
               ELSE <<>>)
                  \o <<Plain(SlotOf(html[i]))>> \o TurndownFrom(html, i + 1, TRUE, "text")
    ELSE IF html[i] = BR
         THEN <<SP, SP, NL>> \o TurndownFrom(html, i + 1, TRUE, "br")
    ELSE TurndownFrom(html, i + 1, any, "start")

Turndown(html) == TurndownFrom(html, 1, FALSE, "start")

\* the lines of a Markdown text
RECURSIVE SplitLinesFrom(_, _)
SplitLinesFrom(s, cur) ==
    IF s = <<>> THEN <<cur>>
    ELSE IF Head(s) = NL THEN <<cur>> \o SplitLinesFrom(Tail(s), <<>>)
    ELSE SplitLinesFrom(Tail(s), Append(cur, Head(s)))

SplitLines(s) == SplitLinesFrom(s, <<>>)

\* a line that ends a paragraph line with a hard break: text, then two or
\* more spaces
EndsHard(line) ==
    /\ Len(line) >= 2
    /\ line[Len(line)] = SP
    /\ line[Len(line) - 1] = SP

\* marked.parse(md) from line k on: the lines between blank lines make a
\* paragraph, a "\n" follows every block; open: a paragraph is open
RECURSIVE MarkedFrom(_, _, _)
MarkedFrom(lines, k, open) ==
    IF k > Len(lines) THEN (IF open THEN <<"</p>", NL>> ELSE <<>>)
    ELSE IF IsBlank(lines[k])
         THEN (IF open THEN <<"</p>", NL>> ELSE <<>>) \o MarkedFrom(lines, k + 1, FALSE)
    ELSE LET more == k < Len(lines) /\ ~IsBlank(lines[k + 1])
         IN  (IF open THEN <<>> ELSE <<"<p>">>)
                 \o (IF more /\ EndsHard(lines[k]) THEN TrimRight(lines[k]) \o <<BR>>
                     ELSE IF more THEN lines[k] \o <<NL>>
                     ELSE lines[k])
                 \o MarkedFrom(lines, k + 1, TRUE)

MarkedParse(md) == MarkedFrom(SplitLines(md), 1, FALSE)

\* what the user can do to the text of the textarea in one change event
MdChars == {"b", NL}

MdEdits(md) ==
    {SubSeq(md, 1, p) \o <<c>> \o SubSeq(md, p + 1, Len(md)) :
        p \in {q \in 0..Len(md) : Len(md) + 1 <= MaxMdLen}, c \in MdChars}
    \cup {SubSeq(md, 1, i - 1) \o SubSeq(md, i + 1, Len(md)) : i \in 1..Len(md)}

\* the mode effect (Editor.tsx 67-80) has run for the current mode and no
\* conversion is awaited
ModeSettled == probe.mode = isMarkdownMode /\ probe.parsing = <<>>

\* Editor.tsx 67-80: on the switch to Markdown the text is made from the
\* document
MarkdownModeEffect ==
    /\ phase = "idle"
    /\ probe.mode # isMarkdownMode
    /\ probe' = [markdownContent |-> IF isMarkdownMode THEN Turndown(GetHTML(doc))
                                     ELSE probe.markdownContent,
                 parsing |-> probe.parsing,
                 mode |-> isMarkdownMode]
    /\ UNCHANGED <<doc, content, plainText, title, reviewData, reviews, isReviewing,
                   selectedFeedback, feedbackToAccept, isMarkdownMode, phase, dirty,
                   ev, attempt, failed>>

\* handleMarkdownChange up to its await: Editor.tsx 82-90
HandleMarkdownChange ==
    /\ phase = "idle"
    /\ isMarkdownMode
    /\ ModeSettled
    /\ \E newMd \in MdEdits(probe.markdownContent) :
          probe' = [markdownContent |-> newMd,
                    parsing |-> Append(probe.parsing, newMd),
                    mode |-> probe.mode]
    /\ UNCHANGED <<doc, content, plainText, title, reviewData, reviews, isReviewing,
                   selectedFeedback, feedbackToAccept, isMarkdownMode, phase, dirty,
                   ev, attempt, failed>>

\* mutant of MarkdownParsed: setContent without emitUpdate
MarkdownParsedSilent ==
    /\ phase = "idle"
    /\ probe.parsing # <<>>
    /\ doc' = SetContent(MarkedParse(Head(probe.parsing)))
    /\ probe' = [probe EXCEPT !.parsing = Tail(@)]
    /\ ev' = "none"
    /\ attempt' = NoAttempt
    /\ UNCHANGED <<content, plainText, title, reviewData, reviews, isReviewing,
                   selectedFeedback, feedbackToAccept, isMarkdownMode, phase, dirty,
                   failed>>

\* handleMarkdownChange after its await: Editor.tsx 90-104; setContent
\* emits onUpdate, which hands HTML and text to App
MarkdownParsed ==
    /\ phase = "idle"
    /\ probe.parsing # <<>>
    /\ doc' = SetContent(MarkedParse(Head(probe.parsing)))
    /\ content' = GetHTML(doc')
    /\ plainText' = GetText(doc')
    /\ probe' = [probe EXCEPT !.parsing = Tail(@)]
    /\ LET changed == content' # content \/ plainText' # plainText
       IN  /\ ev' = IF changed THEN "markdown" ELSE "none"
           /\ phase' = IF changed THEN "sync" ELSE "idle"
    /\ attempt' = NoAttempt
    /\ dirty' = FALSE
    /\ UNCHANGED <<title, reviewData, reviews, isReviewing, selectedFeedback,
                   feedbackToAccept, isMarkdownMode, failed>>

(***************************************************************************)
(* SpecMarkdown: App and Editor with the Markdown mode, on documents that  *)
(* are changed in the textarea, by accept and by reset.                    *)
(***************************************************************************)
MarkdownLists == {<<T2>>}

MarkdownDocs == {Para(<<"b">>), Para(<<"b">>) \o Para(<<>>), Para(<<"b">>) \o Para(<<"b">>)}

InitMarkdown ==
    /\ doc \in MarkdownDocs
    /\ content = GetHTML(doc)
    /\ plainText = GetText(doc)
    /\ title = <<>>
    /\ reviewData = Null
    /\ reviews = 0
    /\ isReviewing = FALSE
    /\ selectedFeedback = Null
    /\ feedbackToAccept = Null
    /\ isMarkdownMode = FALSE
    /\ phase = "idle"
    /\ dirty = FALSE
    /\ ev = "none"
    /\ attempt = NoAttempt
    /\ failed = "no"
    /\ probe = [markdownContent |-> <<>>, parsing |-> <<>>, mode |-> FALSE]

ReviewResponseMarkdown == StoreResponse(MarkdownLists)

\* an event or an effect of a render; events wait for the mode effect of
\* the last render and for the conversion that is awaited
Rendered(A) == (phase = "idle" => ModeSettled) /\ A

NextMarkdown ==
    \/ MarkdownModeEffect
    \/ HandleMarkdownChange
    \/ MarkdownParsed
    \/ Rendered(ToggleMode)
    \/ Rendered(HandleReview)
    \/ Rendered(ReviewResponseMarkdown)
    \/ Rendered(HandleAcceptFeedback)
    \/ Rendered(HandleReset)
    \/ Rendered(SyncContent)
    \/ Rendered(AcceptIdle)
    \/ Rendered(AcceptNotFound)
    \/ Rendered(AcceptFailed)
    \/ Rendered(AcceptOk)

SpecMarkdown == InitMarkdown /\ [][NextMarkdown]_vars
(***************************************************************************)
(* Properties.                                                             *)
(***************************************************************************)
\* the characters of a document or flat text, block boundaries left out
TextOf(t) == SelectSeq([k \in 1..Len(t) |-> Plain(t[k])], LAMBDA c : c \in PlainLetters \cup {SP})

FlatOf(d) == FullText(Tokens(d))

\* flat text with the match m replaced by text
Replaced(flat, m, text) ==
    SubSeq(flat, 1, m.index) \o text \o SubSeq(flat, m.index + m.length + 1, Len(flat))

\* the accept effect is about to run for the record in feedbackToAccept
Attempting == phase = "accept" /\ feedbackToAccept # Null

MatchOf(fb, d) == Exec(fb.original_sentence, FlatOf(d))

IsAccepted(rd, fb) ==
    /\ rd # Null
    /\ \E k \in 1..Len(rd.feedbacks) :
          /\ rd.feedbacks[k].id[1] = fb.id[1]
          /\ rd.feedbacks[k].id[2] = fb.id[2]
          /\ rd.feedbacks[k].status = "accepted"

\* C1: when accept is triggered on a pending record whose sentence matches
\* the flat text and the edit does not raise, the matched span is replaced by
\* suggested_text (a one-paragraph document becomes exactly the paragraph
\* with the replaced text), the completion signal marks that record and no
\* other as accepted, and feedbackToAccept is cleared.
C1_AcceptSuccess ==
    [][ (Attempting /\ ev = "accept" /\ MatchOf(feedbackToAccept, doc) # Null
            /\ attempt' # "failed")
        => LET fb == feedbackToAccept
               m == MatchOf(fb, doc)
               expected == Replaced(FlatOf(doc), m, fb.suggested_text)
           IN  /\ attempt' = "ok"
               /\ TextOf(doc') = TextOf(expected)
               /\ (Len(Tokens(doc)) <= 2 => doc' = Para(TextOf(expected)))
               /\ IsAccepted(reviewData', fb)
               /\ \A k \in 1..Len(reviewData.feedbacks) :
                     ~Same(reviewData.feedbacks[k], fb)
                         => reviewData'.feedbacks[k] = reviewData.feedbacks[k]
               /\ feedbackToAccept' = Null ]_vars

C1_Witness ==
    /\ attempt = "ok"
    /\ ev = "accept"
    /\ feedbackToAccept = Null
    /\ doc = Para(<<"a">>)
    /\ reviewData # Null
    /\ reviewData.feedbacks[2].status = "accepted"

\* C2: an accept changes nothing outside the matched span: the flat text
\* after it (block boundaries included) is the flat text before it with the
\* match replaced by suggested_text.
C2_AcceptFrame ==
    [][ (Attempting /\ attempt' = "ok")
        => FlatOf(doc') = Replaced(FlatOf(doc), MatchOf(feedbackToAccept, doc),
                                   feedbackToAccept.suggested_text) ]_vars

\* C3: when the sentence has no match, the accept attempt leaves the
\* document untouched, emits no completion signal and leaves every record's
\* status as it was.
C3_SpanNotFound ==
    [][ (Attempting /\ MatchOf(feedbackToAccept, doc) = Null)
        => /\ attempt' = "notfound"
           /\ doc' = doc
           /\ reviewData' = reviewData
           /\ feedbackToAccept' = feedbackToAccept ]_vars

C3_Witness ==
    /\ attempt = "notfound"
    /\ feedbackToAccept # Null
    /\ feedbackToAccept.status = "pending"
    /\ MatchOf(feedbackToAccept, doc) = Null

\* C4: when the edit raises, the effect still ends normally, no completion
\* signal is emitted and every record's status stays as it was.
C4_MutationFailed ==
    [][ (Attempting /\ attempt' = "failed")
        => /\ phase' \in {"idle", "sync"}
           /\ reviewData' = reviewData
           /\ feedbackToAccept' = feedbackToAccept
           /\ selectedFeedback' = selectedFeedback ]_vars

C4_Witness ==
    /\ attempt = "failed"
    /\ feedbackToAccept # Null
    /\ reviewData # Null
    /\ \E k \in 1..Len(reviewData.feedbacks) :
          reviewData.feedbacks[k] = feedbackToAccept

\* C5: an accept attempt for a record whose accept has already failed is
\* only ever run by a new accept trigger, never by another event.
C5_NoAutomaticRetry == (Attempting /\ failed # "no") => ev = "accept"

\* C6: when the accept of a record failed for want of a match and the
\* document has been edited so that its sentence matches, triggering accept
\* on that record again makes the accept effect run.
C6_RetriggerAttempts ==
    [][ (HandleAcceptFeedback /\ failed = "notfound"
            /\ feedbackToAccept' = feedbackToAccept
            /\ MatchOf(feedbackToAccept, doc) # Null)
        => phase' = "sync" ]_vars

\* C7: within one review a record's status changes only from pending to
\* accepted or from pending to rejected.
C7_StatusTransitions ==
    [][ (reviewData # Null /\ reviewData' # Null
            /\ reviewData'.feedbacks[1].id[1] = reviewData.feedbacks[1].id[1])
        => \A k \in 1..Len(reviewData.feedbacks) :
              \/ reviewData'.feedbacks[k].status = reviewData.feedbacks[k].status
              \/ /\ reviewData.feedbacks[k].status = "pending"
                 /\ reviewData'.feedbacks[k].status \in {"accepted", "rejected"} ]_vars

C7_Witness ==
    /\ reviewData # Null
    /\ reviewData.feedbacks[1].status = "rejected"
    /\ reviewData.feedbacks[2].status = "accepted"
    /\ phase = "idle"

\* C8: when a review response is stored as reviewData, every record in it
\* has status pending.
C8_StoredPending ==
    [][ (isReviewing /\ reviews' # reviews)
        => \A k \in 1..Len(reviewData'.feedbacks) :
              reviewData'.feedbacks[k].status = "pending" ]_vars

C8_Witness ==
    /\ ev = "response"
    /\ reviewData # Null
    /\ reviews = 1
    /\ \A k \in 1..Len(reviewData.feedbacks) : reviewData.feedbacks[k].status = "pending"

\* the slots at which a block node starts, and those at which a text node starts
BlockStarts(d) == {i \in 1..Len(d) : d[i] \in OpenTags}
SameNode(d, i, j) ==
    \A k \in i..j : d[k] \in TextSlots /\ (d[k] \in BoldLetters) = (d[i] \in BoldLetters)
TextStarts(d) == {i \in 1..Len(d) : d[i] \in TextSlots /\ (i = 1 \/ ~SameNode(d, i - 1, i))}
LastOfNode(d, i) ==
    CHOOSE j \in i..Len(d) : SameNode(d, i, j) /\ (j = Len(d) \/ ~SameNode(d, i, j + 1))
Literal(d, i) == [k \in 1..(LastOfNode(d, i) - i + 1) |-> Plain(d[i + k - 1])]

\* C9: in the built index every text node has exactly one token, with its
\* literal text and its start position, every block node has exactly one
\* virtual newline token at its position, there are no other tokens, and
\* the tokens are in document order.
C9_IndexBuild ==
    probe # Null =>
        LET tokens == probe.tokens
            At(i, virtual) == {k \in 1..Len(tokens) :
                                  tokens[k].pos = i - 1 /\ tokens[k].isVirtual = virtual}
        IN  /\ \A i \in TextStarts(doc) :
                  /\ Cardinality(At(i, FALSE)) = 1
                  /\ \A k \in At(i, FALSE) : tokens[k].text = Literal(doc, i)
            /\ \A i \in BlockStarts(doc) :
                  /\ Cardinality(At(i, TRUE)) = 1
                  /\ \A k \in At(i, TRUE) : tokens[k].text = <<NL>>
            /\ Len(tokens) = Cardinality(TextStarts(doc)) + Cardinality(BlockStarts(doc))
            /\ \A k \in 1..(Len(tokens) - 1) : tokens[k].pos < tokens[k + 1].pos

C9_Witness ==
    /\ probe # Null
    /\ doc = List(Item(Para(<<"a">>) \o List(Item(Para(<<"a">>))))) \o Para(<<>>)

\* the number of flat characters before token k
RECURSIVE OffsetOf(_, _)
OffsetOf(tokens, k) == IF k = 1 THEN 0 ELSE OffsetOf(tokens, k - 1) + Len(tokens[k - 1].text)

\* C10: the flat text is the texts of the tokens, in order and with nothing
\* between them, and a flat offset inside a text token maps to the document
\* position of that same character.
C10_FlatRoundTrip ==
    probe # Null =>
        LET tokens == probe.tokens
            flat == probe.fullText
        IN  /\ Len(flat) = OffsetOf(tokens, Len(tokens)) + Len(tokens[Len(tokens)].text)
            /\ \A k \in 1..Len(tokens) : \A j \in 1..Len(tokens[k].text) :
                  /\ flat[OffsetOf(tokens, k) + j] = tokens[k].text[j]
                  /\ ~tokens[k].isVirtual =>
                        Plain(doc[GetPosFromIndex(tokens, OffsetOf(tokens, k) + j - 1) + 1])
                            = flat[OffsetOf(tokens, k) + j]

C10_Witness ==
    /\ probe # Null
    /\ probe.fullText = <<NL, "a", "b", NL, "a">>

\* the token that holds flat offset a (0 when a is past the end)
RECURSIVE TokenOf(_, _, _)
TokenOf(tokens, a, k) ==
    IF k > Len(tokens) THEN 0
    ELSE IF a < Len(tokens[k].text) THEN k
    ELSE TokenOf(tokens, a - Len(tokens[k].text), k + 1)

\* C11: the position found for an offset is never before the position found
\* for a smaller offset, offsets on virtual tokens and past the end included.
C11_PosMonotonic ==
    probe # Null =>
        \A a \in 0..probe.targetIndex :
            GetPosFromIndex(probe.tokens, a) <= probe.pos

C11_Witness ==
    /\ probe # Null
    /\ doc = List(Item(Para(<<"a">>))) \o Para(<<>>)
    /\ probe.targetIndex > Len(probe.fullText)
    /\ probe.pos = 8

\* C12: an offset on a virtual token that is followed by text maps to the
\* start position of that text.
C12_VirtualToFollowingText ==
    probe # Null =>
        LET tokens == probe.tokens
            k == TokenOf(tokens, probe.targetIndex, 1)
            later == {j \in 1..Len(tokens) : j > k /\ ~tokens[j].isVirtual}
        IN  (k # 0 /\ tokens[k].isVirtual /\ later # {})
                => probe.pos = tokens[CHOOSE j \in later : \A i \in later : j <= i].pos

\* the position at the end of the content of the document's last block
RECURSIVE EndOfDocument(_)
EndOfDocument(d) ==
    IF d # <<>> /\ d[Len(d)] \in CloseTags
    THEN EndOfDocument(SubSeq(d, 1, Len(d) - 1))
    ELSE Len(d)

\* C13: an offset at or past the end of the flat text maps to the end of
\* the document.
C13_ClampToEnd ==
    (probe # Null /\ probe.targetIndex >= Len(probe.fullText))
        => probe.pos = EndOfDocument(doc)

\* the words of a sentence: its maximal runs of non-whitespace characters
Words(sentence) == SelectSeq(SplitWs(sentence), LAMBDA w : w # <<>>)

\* text[i..j] is the words ws, in order, with non-empty whitespace between
\* consecutive words and none before the first or after the last
Occurs(ws, text, i, j) ==
    /\ 1 <= i /\ i <= j /\ j <= Len(text)
    /\ text[i] \notin WhiteSpace
    /\ text[j] \notin WhiteSpace
    /\ Words(SubSeq(text, i, j)) = ws

HasLocated == phase = "located"

\* C14: when the flat text holds the words of the sentence in order with
\* non-empty whitespace between them, the locator finds a span that starts
\* at a first word and ends at a last word of such an occurrence.
C14_LocatorTolerance ==
    HasLocated =>
        LET ws == Words(probe.original_sentence)
            text == probe.fullText
            m == probe.match
        IN  (ws # <<>> /\ \E i, j \in 1..Len(text) : Occurs(ws, text, i, j))
                => /\ m # Null
                   /\ Occurs(ws, text, m.index + 1, m.index + m.length)

C14_Witness ==
    /\ HasLocated
    /\ probe.original_sentence = <<"a", SP, ".">>
    /\ probe.fullText = <<"a", NL, SP, ".">>
    /\ probe.match = [index |-> 0, length |-> 4]

\* C15: a match is only ever reported on a span that is the words of the
\* sentence, character for character (metacharacters included), in order and
\* with nothing but whitespace between consecutive words.
C15_LocatorStrictness ==
    (HasLocated /\ probe.match # Null /\ Words(probe.original_sentence) # <<>>)
        => Occurs(Words(probe.original_sentence), probe.fullText,
                  probe.match.index + 1, probe.match.index + probe.match.length)

C15_Witness ==
    /\ HasLocated
    /\ probe.original_sentence = <<".", SP, "a">>
    /\ probe.fullText = <<"a", SP, "a">>
    /\ probe.match = Null

\* C16: the reported span is not part of a longer word: the character
\* before it and the character after it, when there are any, are not
\* letters.
C16_NoPartialWord ==
    (HasLocated /\ probe.match # Null /\ Words(probe.original_sentence) # <<>>)
        => LET text == probe.fullText
               first == probe.match.index + 1
               last == probe.match.index + probe.match.length
           IN  /\ first > 1 => text[first - 1] \notin PlainLetters
               /\ last < Len(text) => text[last + 1] \notin PlainLetters

\* the occurrences of the words ws in text, as <<first, last>> slots
Occurrences(ws, text) ==
    {o \in (1..Len(text)) \X (1..Len(text)) : Occurs(ws, text, o[1], o[2])}

\* C17: a successful accept replaces the occurrence of the sentence that
\* starts first in the flat text, and leaves every other character of the
\* text as it was.
C17_FirstMatchWins ==
    [][ (Attempting /\ attempt' = "ok")
        => LET fb == feedbackToAccept
               flat == FlatOf(doc)
               occ == Occurrences(Words(fb.original_sentence), flat)
           IN  /\ occ # {}
               /\ LET o == CHOOSE x \in occ : \A y \in occ : x[1] <= y[1]
                  IN  TextOf(doc') =
                          TextOf(Replaced(flat, [index |-> o[1] - 1,
                                                 length |-> o[2] - o[1] + 1],
                                          fb.suggested_text)) ]_vars

C17_Witness ==
    /\ attempt = "ok"
    /\ doc = Para(<<"a", "b">>)
    /\ reviewData # Null
    /\ reviewData.feedbacks[1].status = "pending"
    /\ reviewData.feedbacks[2].status = "accepted"

\* the markers of a view: the marker records found in the stacks
MarkersOf(view) ==
    UNION {{view[i].marks[j] : j \in 1..Len(view[i].marks)} : i \in 1..Len(view)}

IsPendingNow(id) ==
    /\ reviewData # Null
    /\ \E k \in 1..Len(reviewData.feedbacks) :
          /\ reviewData.feedbacks[k].id = id
          /\ reviewData.feedbacks[k].status = "pending"

\* a run of the highlight effect that gets past its early return
Refreshing == HighlightRefresh /\ ~isMarkdownMode

\* C18: after a highlight refresh every marker in the view belongs to a
\* record that is pending in the current feedback set, and no character
\* carries two markers of the same record.
C18_OnlyPendingMarkers ==
    [][ Refreshing
        => /\ \A m \in MarkersOf(probe'.view) : IsPendingNow(m.id)
           /\ \A i \in 1..Len(probe'.view) :
                 \A j, l \in 1..Len(probe'.view[i].marks) :
                     probe'.view[i].marks[j].id = probe'.view[i].marks[l].id => j = l
       ]_vars

C18_Witness ==
    /\ phase = "idle"
    /\ ~HighlightDue
    /\ ~isMarkdownMode
    /\ reviewData # Null
    /\ reviewData.feedbacks[1].status = "rejected"
    /\ reviewData.feedbacks[2].status = "pending"
    /\ {m.id[2] : m \in MarkersOf(probe.view)} = {2}

\* C19: a second run of the refresh on the view the first run left, with
\* the same feedback set, selection and document, leaves that view as it is.
C19_HighlightIdempotent ==
    [][ Refreshing
        => Refresh(probe'.view, FeedbacksProp, selectedFeedback) = probe'.view ]_vars

C19_Witness ==
    /\ phase = "idle"
    /\ ~HighlightDue
    /\ ~isMarkdownMode
    /\ selectedFeedback # Null
    /\ \E m \in MarkersOf(probe.view) : m.selected
    /\ \E m \in MarkersOf(probe.view) : ~m.selected

Overlap(f, g) == f.start_index < g.end_index /\ g.start_index < f.end_index

\* C20: after a highlight refresh, of two pending records with overlapping
\* ranges at most one has a marker, and no marker lies inside another.
C20_OverlapPaintsOne ==
    [][ Refreshing
        => /\ \A k, l \in 1..Len(FeedbacksProp) :
                 (k < l /\ FeedbacksProp[k].status = "pending"
                        /\ FeedbacksProp[l].status = "pending"
                        /\ Overlap(FeedbacksProp[k], FeedbacksProp[l]))
                 => ~({FeedbacksProp[k].id, FeedbacksProp[l].id}
                         \subseteq {m.id : m \in MarkersOf(probe'.view)})
           /\ \A i \in 1..Len(probe'.view) : Len(probe'.view[i].marks) <= 1 ]_vars


\* the text the highlight effect walks: the characters of the text nodes,
\* in document order
HighlightText(d) == [k \in 1..Len(TextIndexes(d)) |-> Plain(d[TextIndexes(d)[k]])]

\* the characters a record's range designates in the text of document d
Designated(d, fb) ==
    LET text == HighlightText(d)
    IN  SubSeq(text, fb.start_index + 1,
               IF fb.end_index < Len(text) THEN fb.end_index ELSE Len(text))

\* the number of characters of the highlight text up to slot pos of d
TextBefore(d, pos) == Cardinality({i \in 1..pos : IsText(d[i])})

\* the range of fb lies in the text of d and outside the characters that
\* the edit of span removes
Outside(d, span, fb) ==
    /\ fb.end_index <= Len(HighlightText(d))
    /\ \/ fb.end_index <= TextBefore(d, span.from)
       \/ fb.start_index >= TextBefore(d, span.to)

\* C21: after a successful accept, the range of every record that is still
\* pending, and that designated characters outside the replaced span,
\* designates the same characters in the new document.
C21_OffsetsResynchronized ==
    [][ (Attempting /\ attempt' = "ok" /\ reviewData' # Null)
        => \A k \in PendingFeedbacks(reviewData') :
              Outside(doc, Located(doc, feedbackToAccept), reviewData'.feedbacks[k])
              => Designated(doc', reviewData'.feedbacks[k])
                    = Designated(doc, reviewData'.feedbacks[k]) ]_vars



\* the Markdown text md and the document d are conversions of each other
Corresponds(md, d) ==
    \/ md = Turndown(GetHTML(d))
    \/ SetContent(MarkedParse(md)) = d

\* C23: in Markdown mode, once React has settled, the text of the textarea
\* is the conversion of the current document, or converts to it.
C23_FlattenedFromDocument ==
    (isMarkdownMode /\ phase = "idle" /\ ModeSettled)
    => Corresponds(probe.markdownContent, doc)

C25_SuppressedInFlattened ==
    [][ /\ (isMarkdownMode /\ ~ViewRedraw) => probe'.view = probe.view
        /\ (isMarkdownMode /\ ~isMarkdownMode') => HighlightDue' ]_vars

\* the effect has run in Markdown mode after a record with a marker stopped
\* being pending, and the marker is still there
C25_Witness ==
    /\ isMarkdownMode
    /\ phase = "idle"
    /\ ~HighlightDue
    /\ \E m \in MarkersOf(probe.view) : ~IsPendingNow(m.id)

\* the offset, in editor.getText() of d, of the k-th character of the
\* highlight text of d
SnapshotOffset(d, k) ==
    (k - 1) + 2 * Cardinality({j \in 2..TextIndexes(d)[k] : IsOpen(d[j])})

\* the characters of d that the range of fb designates in editor.getText()
Expected(d, fb) ==
    {k \in 1..Len(TextIndexes(d)) :
        fb.start_index <= SnapshotOffset(d, k) /\ SnapshotOffset(d, k) < fb.end_index}

\* the characters of the view that carry the marker of record id
Painted(view, id) ==
    {k \in 1..Len(view) : \E j \in 1..Len(view[k].marks) : view[k].marks[j].id = id}

\* C28: on a document that is as it was submitted, a refresh marks for each
\* pending record exactly the characters that its range designates in the
\* submitted plain text.
C28_MarkerCoversSnapshotRange ==
    [][ (Refreshing /\ doc \in HighlightDocs)
        => \A k \in 1..Len(FeedbacksProp) :
              FeedbacksProp[k].status = "pending"
              => Painted(probe'.view, FeedbacksProp[k].id)
                    = Expected(doc, FeedbacksProp[k]) ]_vars
\* an event handler runs and schedules a render under the name `name'
Event(name) == phase = "idle" /\ ev' = name

\* C26: a Reset leaves content, plain text and title empty, review data and
\* selected feedback null, and no record waiting to be accepted.
C26_ResetClearsAll ==
    [][ Event("reset")
        => /\ content' = <<>>
           /\ plainText' = <<>>
           /\ title' = <<>>
           /\ reviewData' = Null
           /\ selectedFeedback' = Null
           /\ feedbackToAccept' = Null ]_vars


IsPendingIn(rd, fb) ==
    rd # Null /\ \E k \in PendingFeedbacks(rd) : rd.feedbacks[k] = fb

\* C27: the accept effect changes the document only for a record that is
\* pending in the current feedback set when the edit is made.
C27_OnlyPendingApplied ==
    [][ (Attempting /\ attempt' = "ok")
        => IsPendingIn(reviewData, feedbackToAccept) ]_vars

\* C29: selectedFeedback is null or one of the pending records of the
\* current feedback set.
C29_SelectedIsCurrentPending ==
    selectedFeedback = Null \/ IsPendingIn(reviewData, selectedFeedback)

\* C30: a review request starts only when none is in flight, no Reset
\* happens while one is in flight, and review data is installed only by the
\* response of the request in flight, which ends it.
C30_SingleReviewInFlight ==
    [][ /\ Event("review") => (~isReviewing /\ isReviewing')
        /\ Event("reset") => (~isReviewing /\ ~isReviewing')
        /\ reviews' # reviews
              => (isReviewing /\ ~isReviewing' /\ reviews' = reviews + 1) ]_vars

\* the document is edited while a request is in flight
C30_Witness ==
    /\ isReviewing
    /\ ev = "edit"
    /\ plainText # <<>>
====
